---- MODULE Spec2Model ----
(***************************************************************************)
(* Legal document analyzer: the Express upload/dispatch server             *)
(* (src/server.js) and the browser client that submits a document and      *)
(* renders the returned analysis (src/unnamed/part_000).                   *)
(*                                                                         *)
(* Strings are sequences of one-character strings.  Tags that the client   *)
(* inserts ("<li>", "<ul>", "<br>", ...) are single elements, so that a    *)
(* tag can never be confused with document text.                           *)
(***************************************************************************)
EXTENDS Integers, Sequences, FiniteSets, TLC

VARIABLES
    \* ---- section extraction (extractSection, displayResults) ----
    exText,        \* the analysis text handed to the extractor
    exPc,          \* "ready" | "one" (single call made) | "all" (the four calls made)
    exArgs,        \* <<startMarker, endMarker>> of the single call
    exResult,      \* result of the single call
    exSections,    \* the four results computed by displayResults
    \* ---- text formatting (formatText) ----
    fmText,        \* the input of formatText
    fmPc,          \* "ready" | "done"
    fmResult,      \* the markup returned by formatText
    \* ---- server (src/server.js) ----
    apiKeyConfigured,  \* !!process.env.GEMINI_API_KEY
    requests,          \* per POST /api/analyze request: its position and what it did
    disk,              \* requests whose temporary upload file is on disk
    unlinkPending,     \* requests with an fs.unlink issued and not yet carried out
    \* ---- client (src/unnamed/part_000) ----
    selectedFile,        \* the selected File, NoFile for null
    analyzeBtnDisabled,  \* analyzeBtn.disabled
    placeholderDisplay,  \* placeholder.style.display
    loadingDisplay,      \* loading.style.display
    resultsDisplay,      \* results.style.display
    resultsHTML,         \* results.innerHTML, as the sequence of its blocks
    fileInfo,            \* fileInfo.style.display and the file name it shows
    dragOver,            \* uploadArea carries the class drag-over
    fetches,             \* per run of the click handler: its position and its fetch
    lastSettled          \* the run of the click handler that ended last, 0 for none

exVars == <<exText, exPc, exArgs, exResult, exSections>>
fmVars == <<fmText, fmPc, fmResult>>
srvVars == <<apiKeyConfigured, requests, disk, unlinkPending>>
cliVars == <<selectedFile, analyzeBtnDisabled, placeholderDisplay, loadingDisplay,
             resultsDisplay, resultsHTML, fileInfo, dragOver, fetches, lastSettled>>
vars == <<exVars, fmVars, srvVars, cliVars>>

----------------------------------------------------------------------------
(* Bounds *)

\* longest analysis text, in chunks (a chunk is a marker label or one character)
MaxChunks == 5
\* most lines of a text handed to formatText
MaxLines == 3
\* most POST /api/analyze requests the server receives
MaxRequests == 1
\* most analyze requests the client issues
MaxFetches == 2

----------------------------------------------------------------------------
(* JavaScript string primitives *)

\* characters String.prototype.trim removes
IsWhitespace(c) == c \in {" ", "\n", "\t"}

\* marker m occurs in s at 0-based offset i
MatchesAt(s, m, i) ==
    /\ i >= 0
    /\ i + Len(m) <= Len(s)
    /\ \A k \in 1..Len(m) : s[i + k] = m[k]

RECURSIVE IndexOfFrom(_, _, _)
\* s.indexOf(m, i): the left-to-right scan; -1 when there is no occurrence
IndexOfFrom(s, m, i) ==
    IF i + Len(m) > Len(s) THEN -1
    ELSE IF MatchesAt(s, m, i) THEN i
    ELSE IndexOfFrom(s, m, i + 1)

\* s.indexOf(m, from), the start position clamped into 0..s.length
IndexOf(s, m, from) ==
    IndexOfFrom(s, m, IF from < 0 THEN 0 ELSE IF from > Len(s) THEN Len(s) ELSE from)

\* clamp an index into 0..Len(s), as substring does
Clamp(s, i) == IF i < 0 THEN 0 ELSE IF i > Len(s) THEN Len(s) ELSE i

\* s.substring(a, b): 0-based, b exclusive; the arguments are clamped and, when
\* a > b, swapped
Substring(s, a, b) ==
    IF Clamp(s, a) <= Clamp(s, b)
    THEN SubSeq(s, Clamp(s, a) + 1, Clamp(s, b))
    ELSE SubSeq(s, Clamp(s, b) + 1, Clamp(s, a))

RECURSIVE TrimStart(_)
TrimStart(s) ==
    IF s # <<>> /\ IsWhitespace(Head(s)) THEN TrimStart(Tail(s)) ELSE s

RECURSIVE TrimEnd(_)
TrimEnd(s) ==
    IF s # <<>> /\ IsWhitespace(s[Len(s)]) THEN TrimEnd(SubSeq(s, 1, Len(s) - 1)) ELSE s

\* s.trim()
Trim(s) == TrimEnd(TrimStart(s))

----------------------------------------------------------------------------
(* Section markers.  The labels are shortened stand-ins that keep how the  *)
(* real labels can overlap: "KEY IMPORTANT POINTS" ends with the letter    *)
(* "SUSPICIOUS ELEMENTS" begins with, "RISK ASSESSMENT" and                *)
(* "RECOMMENDATIONS" share their first letter, and no label contains       *)
(* another.                                                                *)

KEY_IMPORTANT_POINTS == <<"k", "s">>
SUSPICIOUS_ELEMENTS == <<"s", "u", "s">>
RISK_ASSESSMENT == <<"r", "t">>
RECOMMENDATIONS == <<"r", "s">>

\* endMarker null: falsy at `if (endMarker)`, like the empty string
NullMarker == <<>>

\* the literal 'No information found.'
Sentinel == <<"No information found.">>

\* the (start, end) pairs of the four calls in displayResults, in their order
SectionPairs ==
    << <<KEY_IMPORTANT_POINTS, SUSPICIOUS_ELEMENTS>>,
       <<SUSPICIOUS_ELEMENTS, RISK_ASSESSMENT>>,
       <<RISK_ASSESSMENT, RECOMMENDATIONS>>,
       <<RECOMMENDATIONS, NullMarker>> >>

----------------------------------------------------------------------------
(* A component that takes no part in a specification stays at rest. *)

FmIdle ==
    /\ fmText = <<>>
    /\ fmPc = "idle"
    /\ fmResult = <<>>

ExIdle ==
    /\ exText = <<>>
    /\ exPc = "idle"
    /\ exArgs = <<NullMarker, NullMarker>>
    /\ exResult = <<>>
    /\ exSections = <<>>

SrvIdle ==
    /\ apiKeyConfigured = FALSE
    /\ requests = <<>>
    /\ disk = {}
    /\ unlinkPending = {}

\* selectedFile null
NoFile == "null"

CliIdle ==
    /\ selectedFile = NoFile
    /\ analyzeBtnDisabled = TRUE
    /\ placeholderDisplay = "block"
    /\ loadingDisplay = "none"
    /\ resultsDisplay = "none"
    /\ resultsHTML = <<>>
    /\ fileInfo = [display |-> "none", name |-> NoFile]
    /\ dragOver = FALSE
    /\ fetches = <<>>
    /\ lastSettled = 0

----------------------------------------------------------------------------
(* extractSection *)

\* contentStart of extractSection: just after the first occurrence of startMarker
ContentStartNoSkip(text, startMarker) == IndexOf(text, startMarker, 0)
ContentStart(text, startMarker) == IndexOf(text, startMarker, 0) + Len(startMarker)

\* contentEnd of extractSection
ContentEndFromZero(text, startMarker, endMarker) ==
    IF endMarker # <<>> /\ IndexOf(text, endMarker, 0) # -1
    THEN IndexOf(text, endMarker, 0)
    ELSE Len(text)
ContentEnd(text, startMarker, endMarker) ==
    IF endMarker # <<>> /\ IndexOf(text, endMarker, ContentStart(text, startMarker)) # -1
    THEN IndexOf(text, endMarker, ContentStart(text, startMarker))
    ELSE Len(text)

extractSectionNoMissCheck(text, startMarker, endMarker) ==
    Trim(Substring(text, ContentStart(text, startMarker),
                         ContentEnd(text, startMarker, endMarker)))
extractSection(text, startMarker, endMarker) ==
    IF IndexOf(text, startMarker, 0) = -1 THEN Sentinel
    ELSE Trim(Substring(text, ContentStart(text, startMarker),
                              ContentEnd(text, startMarker, endMarker)))

\* the four extractSection calls of displayResults
ExtractAllSections(text) ==
    [i \in 1..4 |-> extractSection(text, SectionPairs[i][1], SectionPairs[i][2])]

----------------------------------------------------------------------------
(* formatText *)

RECURSIVE SplitLines(_, _)
\* the lines of s (the pieces between "\n"), cur being the line read so far
SplitLines(s, cur) ==
    IF s = <<>> THEN <<cur>>
    ELSE IF Head(s) = "\n" THEN <<cur>> \o SplitLines(Tail(s), <<>>)
    ELSE SplitLines(Tail(s), Append(cur, Head(s)))

RECURSIVE JoinLines(_)
JoinLines(ls) ==
    IF Len(ls) = 0 THEN <<>>
    ELSE IF Len(ls) = 1 THEN ls[1]
    ELSE ls[1] \o <<"\n">> \o JoinLines(Tail(ls))

\* one line under  /^B (.*)$/gm  ->  "<li>$1</li>"  for the bullet character B
BulletLine(line, b) ==
    IF Len(line) >= 2 /\ line[1] = b /\ line[2] = " "
    THEN <<"<li>">> \o SubSeq(line, 3, Len(line)) \o <<"</li>">>
    ELSE line

\* text.replace(/^B (.*)$/gm, "<li>$1</li>")
ReplaceBullets(text, b) ==
    JoinLines([i \in 1..Len(SplitLines(text, <<>>)) |->
                   BulletLine(SplitLines(text, <<>>)[i], b)])

\* positions of tag t in s
Positions(s, t) == {i \in 1..Len(s) : s[i] = t}

Max(S) == CHOOSE x \in S : \A y \in S : y <= x
Min(S) == CHOOSE x \in S : \A y \in S : x <= y

\* text.replace(/(<li>.*<\/li>)/gs, "<ul>$1</ul>"): with the s flag the greedy
\* .* runs over line ends, so the one match goes from the first <li> to the
\* last </li> behind it; nothing after that match holds another </li>
WrapList(s) ==
    IF Positions(s, "<li>") = {} THEN s
    ELSE IF {j \in Positions(s, "</li>") : j > Min(Positions(s, "<li>"))} = {} THEN s
    ELSE SubSeq(s, 1, Min(Positions(s, "<li>")) - 1)
         \o <<"<ul>">>
         \o SubSeq(s, Min(Positions(s, "<li>")), Max(Positions(s, "</li>")))
         \o <<"</ul>">>
         \o SubSeq(s, Max(Positions(s, "</li>")) + 1, Len(s))

\* text.replace(/\n/g, "<br>")
ReplaceNewlines(s) == [i \in 1..Len(s) |-> IF s[i] = "\n" THEN "<br>" ELSE s[i]]

formatText(text) ==
    IF text = <<>> THEN Sentinel
    ELSE ReplaceNewlines(WrapList(ReplaceBullets(ReplaceBullets(text, "-"), "*")))

----------------------------------------------------------------------------
(* Server: POST /api/analyze *)

Requests == 1..MaxRequests

\* limits.fileSize of the multer instance
FileSizeLimit == 10 * 1024 * 1024

\* /jpeg|jpg|png|pdf/.test(str): some alternative occurs somewhere in str
allowedTypes == {<<"j", "p", "e", "g">>, <<"j", "p", "g">>, <<"p", "n", "g">>, <<"p", "d", "f">>}
AllowedTypesTest(str) ==
    \E t \in allowedTypes : IndexOf(str, t, 0) # -1

\* String.prototype.toLowerCase on the letters that file extensions here use
LowerCaseOf(c) ==
    CASE c = "P" -> "p" [] c = "D" -> "d" [] c = "F" -> "f" [] OTHER -> c
toLowerCase(str) == [i \in 1..Len(str) |-> LowerCaseOf(str[i])]

\* fileFilter of upload: cb(null, true) exactly when both tests succeed
fileFilter(file) ==
    AllowedTypesTest(toLowerCase(file.ext)) /\ AllowedTypesTest(file.mimetype)

\* the two branches of analyzeLegalDocument that call model.generateContent
IsPdfExtension(fileExtension) == fileExtension = <<".", "p", "d", "f">>
IsImageExtensionByPattern(fileExtension) == AllowedTypesTest(fileExtension)
IsImageExtension(fileExtension) ==
    fileExtension \in {<<".", "j", "p", "g">>, <<".", "j", "p", "e", "g">>,
                       <<".", "p", "n", "g">>}

\* the response the error handling middleware sends for err
ErrorMiddleware(err) ==
    IF err.multer /\ err.code = "LIMIT_FILE_SIZE"
    THEN [status |-> 400, success |-> FALSE,
          error |-> "File too large. Maximum size is 10MB."]
    ELSE [status |-> 500, success |-> FALSE, error |-> err.message]

\* a multipart request without a file part
NoUpload == [ext |-> <<>>, mimetype |-> <<>>, size |-> 0, present |-> FALSE]

\* path.extname(file.originalname) of the uploads the server is sent
Extensions ==
    {<<".", "p", "d", "f">>, <<".", "P", "D", "F">>, <<".", "j", "p", "g">>,
     <<".", "j", "p", "e", "g">>, <<".", "p", "n", "g">>,
     <<".", "p", "d", "f", "x">>, <<".", "t", "x", "t">>}

\* file.mimetype as the client declares it: application/pdf, image/png, text/plain
MimeTypes ==
    {<<"a", "p", "p", "l", "i", "c", "a", "t", "i", "o", "n", "/", "p", "d", "f">>,
     <<"i", "m", "a", "g", "e", "/", "p", "n", "g">>,
     <<"t", "e", "x", "t", "/", "p", "l", "a", "i", "n">>}

\* sizes in bytes: within the limit and beyond it
Sizes == {1024, FileSizeLimit + 1}

Uploads ==
    {NoUpload} \cup
    [ext : Extensions, mimetype : MimeTypes, size : Sizes, present : {TRUE}]

NewRequest ==
    [pc |-> "new", upload |-> NoUpload, file |-> FALSE, aiCalls |-> 0,
     responses |-> <<>>, unlinks |-> 0]

SrvInit ==
    /\ apiKeyConfigured \in BOOLEAN
    /\ requests = [r \in Requests |-> NewRequest]
    /\ disk = {}
    /\ unlinkPending = {}

\* res.status(status).json({ success: false, error }) ends the request
Respond(r, rec, response) ==
    [rec EXCEPT !.pc = "done", !.responses = Append(@, response)]

\* a client sends POST /api/analyze; requests are numbered in order of arrival
Receive(r, upload) ==
    /\ requests[r].pc = "new"
    /\ \A q \in Requests : q < r => requests[q].pc # "new"
    /\ requests' = [requests EXCEPT ![r] = [@ EXCEPT !.pc = "multer", !.upload = upload]]
    /\ UNCHANGED <<apiKeyConfigured, disk, unlinkPending, exVars, fmVars, cliVars>>

\* upload.single('document') on a request without a file part: req.file stays unset
MulterNoFile(r) ==
    /\ requests[r].pc = "multer"
    /\ ~requests[r].upload.present
    /\ requests' = [requests EXCEPT ![r] = [@ EXCEPT !.pc = "handler"]]
    /\ UNCHANGED <<apiKeyConfigured, disk, unlinkPending, exVars, fmVars, cliVars>>

\* fileFilter refuses the file before any of it is stored; the error goes to the
\* error handling middleware
MulterFilterRejects(r) ==
    /\ requests[r].pc = "multer"
    /\ requests[r].upload.present
    /\ ~fileFilter(requests[r].upload)
    /\ requests' = [requests EXCEPT ![r] =
           Respond(r, @, ErrorMiddleware([multer |-> FALSE, code |-> "",
                      message |-> "Only PDF and image files are allowed!"]))]
    /\ UNCHANGED <<apiKeyConfigured, disk, unlinkPending, exVars, fmVars, cliVars>>

\* the disk storage does not get the file stored (its destination callback hands
\* fs a value that is no directory path); the error goes to the error handling
\* middleware
MulterStorageFails(r) ==
    /\ requests[r].pc = "multer"
    /\ requests[r].upload.present
    /\ fileFilter(requests[r].upload)
    /\ requests' = [requests EXCEPT ![r] =
           Respond(r, @, ErrorMiddleware([multer |-> FALSE, code |-> "",
                      message |-> "storage error"]))]
    /\ UNCHANGED <<apiKeyConfigured, disk, unlinkPending, exVars, fmVars, cliVars>>

\* the file grows beyond limits.fileSize while it is stored: multer removes what
\* it wrote and passes MulterError LIMIT_FILE_SIZE to the error handling middleware
MulterFileTooLarge(r) ==
    /\ requests[r].pc = "multer"
    /\ requests[r].upload.present
    /\ fileFilter(requests[r].upload)
    /\ requests[r].upload.size > FileSizeLimit
    /\ requests' = [requests EXCEPT ![r] =
           Respond(r, @, ErrorMiddleware([multer |-> TRUE, code |-> "LIMIT_FILE_SIZE",
                      message |-> "File too large"]))]
    /\ UNCHANGED <<apiKeyConfigured, disk, unlinkPending, exVars, fmVars, cliVars>>

\* the file is stored on disk and req.file is set
MulterStores(r) ==
    /\ requests[r].pc = "multer"
    /\ requests[r].upload.present
    /\ fileFilter(requests[r].upload)
    /\ requests[r].upload.size <= FileSizeLimit
    /\ requests' = [requests EXCEPT ![r] = [@ EXCEPT !.pc = "handler", !.file = TRUE]]
    /\ disk' = disk \cup {r}
    /\ UNCHANGED <<apiKeyConfigured, unlinkPending, exVars, fmVars, cliVars>>

\* route handler, `if (!req.file)`: 400 'No file uploaded'
HandlerNoFile(r) ==
    /\ requests[r].pc = "handler"
    /\ ~requests[r].file
    /\ requests' = [requests EXCEPT ![r] =
           Respond(r, @, [status |-> 400, success |-> FALSE, error |-> "No file uploaded"])]
    /\ UNCHANGED <<apiKeyConfigured, disk, unlinkPending, exVars, fmVars, cliVars>>

\* route handler, `if (!process.env.GEMINI_API_KEY)`: 500, and the handler returns
HandlerNoApiKey(r) ==
    /\ requests[r].pc = "handler"
    /\ requests[r].file
    /\ ~apiKeyConfigured
    /\ requests' = [requests EXCEPT ![r] =
           Respond(r, @, [status |-> 500, success |-> FALSE,
                          error |-> "Gemini API key not configured"])]
    /\ UNCHANGED <<apiKeyConfigured, disk, unlinkPending, exVars, fmVars, cliVars>>

\* route handler calls analyzeLegalDocument, which reads the file and calls
\* model.generateContent with the PDF or the image; the handler waits for it
HandlerCallsModel(r) ==
    /\ requests[r].pc = "handler"
    /\ requests[r].file
    /\ apiKeyConfigured
    /\ \/ IsPdfExtension(toLowerCase(requests[r].upload.ext))
       \/ IsImageExtension(toLowerCase(requests[r].upload.ext))
    /\ requests' = [requests EXCEPT ![r] =
           [@ EXCEPT !.pc = "generating", !.aiCalls = @ + 1]]
    /\ UNCHANGED <<apiKeyConfigured, disk, unlinkPending, exVars, fmVars, cliVars>>

\* analyzeLegalDocument throws 'Unsupported file type', rethrown as 'Analysis
\* failed: ...'; the handler's catch issues the unlink and answers 500
HandlerUnsupportedType(r) ==
    /\ requests[r].pc = "handler"
    /\ requests[r].file
    /\ apiKeyConfigured
    /\ ~IsPdfExtension(toLowerCase(requests[r].upload.ext))
    /\ ~IsImageExtension(toLowerCase(requests[r].upload.ext))
    /\ requests' = [requests EXCEPT ![r] =
           Respond(r, [@ EXCEPT !.unlinks = @ + 1],
                   [status |-> 500, success |-> FALSE,
                    error |-> "Analysis failed: Unsupported file type"])]
    /\ unlinkPending' = unlinkPending \cup {r}
    /\ UNCHANGED <<apiKeyConfigured, disk, exVars, fmVars, cliVars>>

\* generateContent and result.response resolve: the handler issues the unlink and
\* sends the analysis
ModelResolves(r) ==
    /\ requests[r].pc = "generating"
    /\ requests' = [requests EXCEPT ![r] =
           Respond(r, [@ EXCEPT !.unlinks = @ + 1],
                   [status |-> 200, success |-> TRUE, error |-> ""])]
    /\ unlinkPending' = unlinkPending \cup {r}
    /\ UNCHANGED <<apiKeyConfigured, disk, exVars, fmVars, cliVars>>

\* generateContent rejects (or response.text() throws): rethrown as 'Analysis
\* failed: ...'; the handler's catch issues the unlink and answers 500
ModelRejects(r) ==
    /\ requests[r].pc = "generating"
    /\ requests' = [requests EXCEPT ![r] =
           Respond(r, [@ EXCEPT !.unlinks = @ + 1],
                   [status |-> 500, success |-> FALSE,
                    error |-> "Analysis failed: model error"])]
    /\ unlinkPending' = unlinkPending \cup {r}
    /\ UNCHANGED <<apiKeyConfigured, disk, exVars, fmVars, cliVars>>

\* an issued fs.unlink is carried out: the temporary file is gone
UnlinkCompletes(r) ==
    /\ r \in unlinkPending
    /\ unlinkPending' = unlinkPending \ {r}
    /\ disk' = disk \ {r}
    /\ UNCHANGED <<apiKeyConfigured, requests, exVars, fmVars, cliVars>>

InitServer == SrvInit /\ ExIdle /\ FmIdle /\ CliIdle
NextServer ==
    \E r \in Requests :
        \/ \E upload \in Uploads : Receive(r, upload)
        \/ MulterNoFile(r)
        \/ MulterFilterRejects(r)
        \/ MulterStorageFails(r)
        \/ MulterFileTooLarge(r)
        \/ MulterStores(r)
        \/ HandlerNoFile(r)
        \/ HandlerNoApiKey(r)
        \/ HandlerCallsModel(r)
        \/ HandlerUnsupportedType(r)
        \/ ModelResolves(r)
        \/ ModelRejects(r)
        \/ UnlinkCompletes(r)
SpecServer == InitServer /\ [][NextServer]_vars

----------------------------------------------------------------------------
(* Client: file selection, the analyze button, and the rendering of the   *)
(* outcome.  A handler runs to its next await without interruption.       *)

Fetches == 1..MaxFetches

\* files the user can choose
Files == {"contract.pdf", "scan.png"}

\* an analysis as the model writes it: the four labels in order, bulleted and
\* plain lines under them
SampleAnalysis ==
    KEY_IMPORTANT_POINTS \o <<":", "\n", "-", " ", "a", "\n">>
        \o SUSPICIOUS_ELEMENTS \o <<":", "\n", "-", " ", "b", "\n">>
        \o RISK_ASSESSMENT \o <<":", "\n", "c", "\n">>
        \o RECOMMENDATIONS \o <<":", "\n", "-", " ", "d">>

\* JSON bodies a response can carry: an analysis with the labels, one without
\* any, and a body that has no analysis property (such as the server's error body)
Bodies ==
    {[hasAnalysis |-> TRUE, analysis |-> SampleAnalysis, fileName |-> "contract.pdf"],
     [hasAnalysis |-> TRUE, analysis |-> <<"a">>, fileName |-> "scan.png"],
     [hasAnalysis |-> FALSE, analysis |-> <<>>, fileName |-> "undefined"]}

\* the markup displayError assigns to results.innerHTML
displayError(message) == <<[class |-> "error", content |-> <<message>>]>>

ErrorMessage == "Failed to analyze document. Please try again."

\* the markup displayResults assigns to results.innerHTML
SectionBlock(class, analysis, pair) ==
    [class |-> class,
     content |-> formatText(extractSection(analysis, pair[1], pair[2]))]

displayResults(analysisResult) ==
    << SectionBlock("important", analysisResult.analysis, SectionPairs[1]),
       SectionBlock("suspicious", analysisResult.analysis, SectionPairs[2]),
       SectionBlock("risk", analysisResult.analysis, SectionPairs[3]),
       SectionBlock("recommendations", analysisResult.analysis, SectionPairs[4]),
       [class |-> "footer", content |-> <<analysisResult.fileName>>] >>

\* `if (!response.ok) throw`: the handler goes on to response.json() only when
\* this holds
ResponseAlwaysPasses(net) == TRUE
ResponsePasses(net) == net = "ok"

NewFetch == [pc |-> "unused", file |-> NoFile, net |-> "none"]

CliInit ==
    /\ selectedFile = NoFile
    /\ analyzeBtnDisabled \in BOOLEAN
    /\ placeholderDisplay = "block"
    /\ loadingDisplay = "none"
    /\ resultsDisplay = "none"
    /\ resultsHTML = <<>>
    /\ fileInfo = [display |-> "none", name |-> NoFile]
    /\ dragOver = FALSE
    /\ fetches = [f \in Fetches |-> NewFetch]
    /\ lastSettled = 0

\* dragover on the upload area
DragOver ==
    /\ dragOver' = TRUE
    /\ UNCHANGED <<selectedFile, analyzeBtnDisabled, placeholderDisplay, loadingDisplay,
                   resultsDisplay, resultsHTML, fileInfo, fetches, lastSettled,
                   exVars, fmVars, srvVars>>

\* dragleave on the upload area
DragLeave ==
    /\ dragOver' = FALSE
    /\ UNCHANGED <<selectedFile, analyzeBtnDisabled, placeholderDisplay, loadingDisplay,
                   resultsDisplay, resultsHTML, fileInfo, fetches, lastSettled,
                   exVars, fmVars, srvVars>>

\* drop of a file on the upload area: handleFileSelect(files[0])
DropFile(file) ==
    /\ dragOver' = FALSE
    /\ selectedFile' = file
    /\ fileInfo' = [display |-> "block", name |-> file]
    /\ analyzeBtnDisabled' = FALSE
    /\ UNCHANGED <<placeholderDisplay, loadingDisplay, resultsDisplay, resultsHTML,
                   fetches, lastSettled, exVars, fmVars, srvVars>>

\* drop of something that carries no file
DropNothing ==
    /\ dragOver' = FALSE
    /\ UNCHANGED <<selectedFile, analyzeBtnDisabled, placeholderDisplay, loadingDisplay,
                   resultsDisplay, resultsHTML, fileInfo, fetches, lastSettled,
                   exVars, fmVars, srvVars>>

\* change of the file input with a file chosen: handleFileSelect(files[0])
ChangeFile(file) ==
    /\ selectedFile' = file
    /\ fileInfo' = [display |-> "block", name |-> file]
    /\ analyzeBtnDisabled' = FALSE
    /\ UNCHANGED <<placeholderDisplay, loadingDisplay, resultsDisplay, resultsHTML,
                   dragOver, fetches, lastSettled, exVars, fmVars, srvVars>>

\* click on the enabled button with no file selected: the handler returns
ClickWithoutFile ==
    /\ ~analyzeBtnDisabled
    /\ selectedFile = NoFile
    /\ UNCHANGED vars

\* click on the enabled button: loading state, then fetch('/api/analyze') is
\* issued and awaited
ClickAnalyze(f) ==
    /\ ~analyzeBtnDisabled
    /\ selectedFile # NoFile
    /\ fetches[f].pc = "unused"
    /\ \A g \in Fetches : g < f => fetches[g].pc # "unused"
    /\ placeholderDisplay' = "none"
    /\ resultsDisplay' = "none"
    /\ loadingDisplay' = "block"
    /\ analyzeBtnDisabled' = TRUE
    /\ fetches' = [fetches EXCEPT ![f] = [@ EXCEPT !.pc = "pending", !.file = selectedFile]]
    /\ UNCHANGED <<selectedFile, resultsHTML, fileInfo, dragOver, lastSettled,
                   exVars, fmVars, srvVars>>

\* catch and finally of the click handler: displayError, then the loading state
\* is taken back
Fail(f, net) ==
    /\ resultsHTML' = displayError(ErrorMessage)
    /\ resultsDisplay' = "block"
    /\ loadingDisplay' = "none"
    /\ analyzeBtnDisabled' = FALSE
    /\ fetches' = [fetches EXCEPT ![f] = [@ EXCEPT !.pc = "settled", !.net = net]]
    /\ lastSettled' = f
    /\ UNCHANGED <<selectedFile, placeholderDisplay, fileInfo, dragOver,
                   exVars, fmVars, srvVars>>

\* the fetch resolves with a response; a response that is not OK makes the
\* handler throw, an OK one makes it await response.json()
FetchResolves(f, net) ==
    /\ fetches[f].pc = "pending"
    /\ IF ResponsePasses(net)
       THEN /\ fetches' = [fetches EXCEPT ![f] = [@ EXCEPT !.pc = "json", !.net = net]]
            /\ UNCHANGED <<selectedFile, analyzeBtnDisabled, placeholderDisplay,
                           loadingDisplay, resultsDisplay, resultsHTML, fileInfo,
                           dragOver, lastSettled, exVars, fmVars, srvVars>>
       ELSE Fail(f, net)

\* the fetch rejects (network failure)
FetchRejects(f) ==
    /\ fetches[f].pc = "pending"
    /\ Fail(f, "rejected")

\* response.json() resolves with a body that has an analysis: displayResults, then
\* finally
JsonResolves(f, body) ==
    /\ fetches[f].pc = "json"
    /\ body.hasAnalysis
    /\ loadingDisplay' = "none"
    /\ resultsHTML' = displayResults(body)
    /\ resultsDisplay' = "block"
    /\ analyzeBtnDisabled' = FALSE
    /\ fetches' = [fetches EXCEPT ![f] = [@ EXCEPT !.pc = "settled"]]
    /\ lastSettled' = f
    /\ UNCHANGED <<selectedFile, placeholderDisplay, fileInfo, dragOver,
                   exVars, fmVars, srvVars>>

\* response.json() resolves with a body without analysis: extractSection throws
\* inside displayResults before results.innerHTML is assigned; catch, finally
JsonWithoutAnalysis(f, body) ==
    /\ fetches[f].pc = "json"
    /\ ~body.hasAnalysis
    /\ Fail(f, fetches[f].net)

\* response.json() rejects (the body is no JSON): catch, finally
JsonRejects(f) ==
    /\ fetches[f].pc = "json"
    /\ Fail(f, fetches[f].net)

InitClient == CliInit /\ ExIdle /\ FmIdle /\ SrvIdle
NextClient ==
    \/ DragOver
    \/ DragLeave
    \/ \E file \in Files : DropFile(file)
    \/ DropNothing
    \/ \E file \in Files : ChangeFile(file)
    \/ ClickWithoutFile
    \/ \E f \in Fetches :
          \/ ClickAnalyze(f)
          \/ \E net \in {"ok", "notOk"} : FetchResolves(f, net)
          \/ FetchRejects(f)
          \/ \E body \in Bodies : JsonResolves(f, body)
          \/ \E body \in Bodies : JsonWithoutAnalysis(f, body)
          \/ JsonRejects(f)
SpecClient == InitClient /\ [][NextClient]_vars

----------------------------------------------------------------------------
(* Claims about the client *)

\* runs of the click handler whose request has been issued and has neither
\* completed nor failed
InFlight == {f \in Fetches : fetches[f].pc \in {"pending", "json"}}

\* runs of the click handler whose fetch has neither resolved nor rejected
PendingFetches == {f \in Fetches : fetches[f].pc = "pending"}

\* C2 as stated: at most one analyze request is in flight at any time, whatever
\* the user does while a request is pending.
C2_SingleRequestInFlight == Cardinality(InFlight) <= 1

\* C5 as stated: while an analyze request is pending the loading indicator is
\* shown.
C5_LoadingShownWhilePending ==
    PendingFetches # {} => loadingDisplay = "block"

\* the four-section layout: the four sections in their order, then the footer
IsSectionLayout(html) ==
    /\ Len(html) = 5
    /\ [i \in 1..5 |-> html[i].class]
           = <<"important", "suspicious", "risk", "recommendations", "footer">>

IsErrorDisplay(html) ==
    /\ Len(html) = 1
    /\ html[1].class = "error"

\* C6: once a request has ended, the results element holds either the
\* four-section layout alone or the error display alone; and when the request
\* that ended last failed (response not OK, or network failure), it holds the
\* error display.
C6_SectionsOrErrorNeverBoth ==
    /\ lastSettled # 0 => (IsSectionLayout(resultsHTML) \/ IsErrorDisplay(resultsHTML))
    /\ (lastSettled # 0 /\ fetches[lastSettled].net \in {"notOk", "rejected"})
           => IsErrorDisplay(resultsHTML)

\* a request failed after an earlier one had put sections on the page
C6_Witness ==
    /\ lastSettled # 0
    /\ fetches[lastSettled].net = "notOk"
    /\ IsErrorDisplay(resultsHTML)
    /\ \E g \in Fetches :
          g # lastSettled /\ fetches[g].pc = "settled" /\ fetches[g].net = "ok"

----------------------------------------------------------------------------
(* Inputs of the pure functions *)

\* pieces an analysis text is put together from: the four labels, a letter, a
\* blank, and a lone "k" (which, before SUSPICIOUS ELEMENTS, makes two labels
\* overlap)
Chunks ==
    {KEY_IMPORTANT_POINTS, SUSPICIOUS_ELEMENTS, RISK_ASSESSMENT, RECOMMENDATIONS,
     <<"a">>, <<" ">>, <<"k">>}

RECURSIVE Flatten(_)
Flatten(ss) == IF ss = <<>> THEN <<>> ELSE Head(ss) \o Flatten(Tail(ss))

Texts == {Flatten(cs) : cs \in UNION {[1..n -> Chunks] : n \in 0..MaxChunks}}

\* argument pairs of a single extractSection call: the four pairs of
\* displayResults, a null end marker, and an end marker lying before the start
ExtractArgs ==
    {SectionPairs[i] : i \in 1..4}
        \cup {<<KEY_IMPORTANT_POINTS, NullMarker>>,
              <<RISK_ASSESSMENT, KEY_IMPORTANT_POINTS>>}

\* lines a text handed to formatText is made of
Lines ==
    {<<"-", " ", "a">>, <<"*", " ", "b">>, <<"c">>, <<>>, <<"-", "a">>, <<" ", "-", " ", "a">>}

FormatInputs == {JoinLines(ls) : ls \in UNION {[1..n -> Lines] : n \in 0..MaxLines}}

----------------------------------------------------------------------------
(* Specification of the extractor: a text arrives, then either one call of *)
(* extractSection or the four calls of displayResults are made on it.      *)

ExInit ==
    /\ exText \in Texts
    /\ exPc = "ready"
    /\ exArgs = <<NullMarker, NullMarker>>
    /\ exResult = <<>>
    /\ exSections = <<>>

CallExtractSection ==
    /\ exPc = "ready"
    /\ \E args \in ExtractArgs :
          /\ exArgs' = args
          /\ exResult' = extractSection(exText, args[1], args[2])
    /\ exPc' = "one"
    /\ UNCHANGED <<exText, exSections, fmVars, srvVars, cliVars>>

CallDisplaySections ==
    /\ exPc = "ready"
    /\ exSections' = ExtractAllSections(exText)
    /\ exPc' = "all"
    /\ UNCHANGED <<exText, exArgs, exResult, fmVars, srvVars, cliVars>>

InitExtract == ExInit /\ FmIdle /\ SrvIdle /\ CliIdle
NextExtract == CallExtractSection \/ CallDisplaySections
SpecExtract == InitExtract /\ [][NextExtract]_vars

----------------------------------------------------------------------------
(* Specification of the formatter *)

FmInit ==
    /\ fmText \in FormatInputs
    /\ fmPc = "ready"
    /\ fmResult = <<>>

CallFormatText ==
    /\ fmPc = "ready"
    /\ fmResult' = formatText(fmText)
    /\ fmPc' = "done"
    /\ UNCHANGED <<fmText, exVars, srvVars, cliVars>>

InitFormat == FmInit /\ ExIdle /\ SrvIdle /\ CliIdle
NextFormat == CallFormatText
SpecFormat == InitFormat /\ [][NextFormat]_vars

----------------------------------------------------------------------------
(* Claims about the server *)

\* the extensions of the three accepted document types
SupportedExtensions ==
    {<<".", "p", "d", "f">>, <<".", "j", "p", "g">>, <<".", "j", "p", "e", "g">>,
     <<".", "p", "n", "g">>}

\* the extension with capitals folded, as file types do not depend on case
FoldCase(ext) ==
    [i \in 1..Len(ext) |->
        CASE ext[i] = "P" -> "p" [] ext[i] = "D" -> "d" [] ext[i] = "F" -> "f"
          [] OTHER -> ext[i]]

\* C1 as stated: a request that has ended and whose upload multer stored on disk
\* has had fs.unlink issued for its file, on whichever path it ended.
C1_StoredFileUnlinkedOnEveryExit ==
    \A r \in Requests :
        (requests[r].pc = "done" /\ requests[r].file) => requests[r].unlinks >= 1

\* C3 as stated: a request whose file exceeds the size limit ends with exactly
\* one response, status 400 'File too large. Maximum size is 10MB.', and the
\* model was never called for it.
C3_OversizeGets400 ==
    \A r \in Requests :
        (requests[r].upload.present /\ requests[r].upload.size > FileSizeLimit) =>
            /\ requests[r].aiCalls = 0
            /\ requests[r].pc = "done" =>
                   requests[r].responses =
                       <<[status |-> 400, success |-> FALSE,
                          error |-> "File too large. Maximum size is 10MB."]>>

----------------------------------------------------------------------------
(* Vocabulary of the claims about the pure functions, stated on the text  *)
(* itself and not through the operators above.                             *)

\* label m lies in s at 0-based offset i
OccursAt(s, m, i) == i + Len(m) <= Len(s) /\ SubSeq(s, i + 1, i + Len(m)) = m
Occurs(s, m) == \E i \in 0..Len(s) : OccursAt(s, m, i)
\* offset of the first occurrence of m in s at or after from (m occurs there)
FirstAt(s, m, from) == Min({i \in from..Len(s) : OccursAt(s, m, i)})
OccursFrom(s, m, from) == \E i \in from..Len(s) : OccursAt(s, m, i)

\* r is raw without its leading and trailing whitespace
IsTrimOf(r, raw) ==
    \E i \in 1..(Len(raw) + 1), j \in 0..Len(raw) :
        /\ r = SubSeq(raw, i, j)
        /\ \A k \in 1..(i - 1) : IsWhitespace(raw[k])
        /\ \A k \in (j + 1)..Len(raw) : IsWhitespace(raw[k])
        /\ r # <<>> => ~IsWhitespace(r[1]) /\ ~IsWhitespace(r[Len(r)])

IsTrimmed(r) == r = <<>> \/ (~IsWhitespace(r[1]) /\ ~IsWhitespace(r[Len(r)]))

\* the part of text the claim says a call returns, before trimming
SectionOf(text, startMarker, endMarker) ==
    LET from == FirstAt(text, startMarker, 0) + Len(startMarker)
        to   == IF endMarker # NullMarker /\ OccursFrom(text, endMarker, from)
                THEN FirstAt(text, endMarker, from)
                ELSE Len(text)
    IN  SubSeq(text, from + 1, to)

\* 1-based position of the first non-whitespace character of s at or after p
RECURSIVE SkipWhitespace(_, _)
SkipWhitespace(s, p) ==
    IF p >= 1 /\ p <= Len(s) /\ IsWhitespace(s[p]) THEN SkipWhitespace(s, p + 1) ELSE p

\* reading s from position p: each piece in turn, then any whitespace; the
\* position reached, or 0 when a piece is not there
RECURSIVE ReadPieces(_, _, _)
ReadPieces(s, p, pieces) ==
    IF p = 0 THEN 0
    ELSE IF pieces = <<>> THEN p
    ELSE IF SubSeq(s, p, p + Len(Head(pieces)) - 1) = Head(pieces)
              /\ p + Len(Head(pieces)) - 1 <= Len(s)
         THEN ReadPieces(s, SkipWhitespace(s, p + Len(Head(pieces))), Tail(pieces))
         ELSE 0

\* s from position p on is: label, section, label, section, ... with nothing
\* but whitespace around the sections
Reconstructs(s, p, secs) ==
    ReadPieces(s, p, <<KEY_IMPORTANT_POINTS, secs[1], SUSPICIOUS_ELEMENTS, secs[2],
                       RISK_ASSESSMENT, secs[3], RECOMMENDATIONS, secs[4]>>)
        = Len(s) + 1

AllMarkersOccur(text) ==
    /\ Occurs(text, KEY_IMPORTANT_POINTS)
    /\ Occurs(text, SUSPICIOUS_ELEMENTS)
    /\ Occurs(text, RISK_ASSESSMENT)
    /\ Occurs(text, RECOMMENDATIONS)

\* the first occurrences of the four labels are in ascending order
MarkersAscending(text) ==
    /\ AllMarkersOccur(text)
    /\ FirstAt(text, KEY_IMPORTANT_POINTS, 0) < FirstAt(text, SUSPICIOUS_ELEMENTS, 0)
    /\ FirstAt(text, SUSPICIOUS_ELEMENTS, 0) < FirstAt(text, RISK_ASSESSMENT, 0)
    /\ FirstAt(text, RISK_ASSESSMENT, 0) < FirstAt(text, RECOMMENDATIONS, 0)

\* ... and none of these occurrences begins inside the label before it
MarkersApart(text) ==
    /\ AllMarkersOccur(text)
    /\ FirstAt(text, KEY_IMPORTANT_POINTS, 0) + Len(KEY_IMPORTANT_POINTS)
           <= FirstAt(text, SUSPICIOUS_ELEMENTS, 0)
    /\ FirstAt(text, SUSPICIOUS_ELEMENTS, 0) + Len(SUSPICIOUS_ELEMENTS)
           <= FirstAt(text, RISK_ASSESSMENT, 0)
    /\ FirstAt(text, RISK_ASSESSMENT, 0) + Len(RISK_ASSESSMENT)
           <= FirstAt(text, RECOMMENDATIONS, 0)

\* the ranges the four calls cut out of text lie one after the other
RangesDisjoint(text) ==
    \A i \in 1..3 :
        /\ ContentStart(text, SectionPairs[i][1])
               <= ContentEnd(text, SectionPairs[i][1], SectionPairs[i][2])
        /\ ContentEnd(text, SectionPairs[i][1], SectionPairs[i][2])
               <= ContentStart(text, SectionPairs[i + 1][1])

----------------------------------------------------------------------------
(* Claims about extractSection *)

\* C7 as stated: for every text holding the four labels in ascending order the
\* four sections are trimmed, come from ranges that do not overlap, and with
\* the labels and the trimmed whitespace put back give the whole text.
C7_ReconstructsWholeText ==
    (exPc = "all" /\ MarkersAscending(exText)) =>
        /\ \A i \in 1..4 : IsTrimmed(exSections[i])
        /\ RangesDisjoint(exText)
        /\ Reconstructs(exText, 1, exSections)

\* C7 amended: when, in addition, no label's first occurrence begins inside the
\* label before it, the four sections are trimmed, come from ranges that do not
\* overlap, and with the labels and the trimmed whitespace put back give the
\* text from the first label on; what precedes the first label is in no section.
C7_ReconstructsFromFirstMarker ==
    (exPc = "all" /\ MarkersApart(exText)) =>
        /\ \A i \in 1..4 : IsTrimmed(exSections[i])
        /\ RangesDisjoint(exText)
        /\ Reconstructs(exText, FirstAt(exText, KEY_IMPORTANT_POINTS, 0) + 1, exSections)

\* a text with the four labels apart and something in its first section
C7_Witness ==
    /\ exPc = "all"
    /\ MarkersApart(exText)
    /\ exSections[1] = <<"a">>
    /\ Reconstructs(exText, FirstAt(exText, KEY_IMPORTANT_POINTS, 0) + 1, exSections)

\* C9: when startMarker does not occur in the text, extractSection returns the
\* sentinel 'No information found.', whatever endMarker is (null, absent from
\* the text or present in it); this holds of a single call and of each of the
\* four calls of displayResults.
C9_MissingMarkerGivesSentinel ==
    /\ (exPc = "one" /\ ~Occurs(exText, exArgs[1])) => exResult = Sentinel
    /\ exPc = "all" =>
           \A i \in 1..4 :
               ~Occurs(exText, SectionPairs[i][1]) => exSections[i] = Sentinel

C9_Witness ==
    /\ exPc = "one"
    /\ ~Occurs(exText, exArgs[1])
    /\ exArgs[2] # NullMarker
    /\ Occurs(exText, exArgs[2])
    /\ exResult = Sentinel

\* C10: when startMarker occurs in the text, extractSection returns, trimmed of
\* whitespace, the part of the text from just after the first occurrence of
\* startMarker up to the first occurrence of endMarker at or after that offset,
\* and up to the end of the text when endMarker is null or does not occur there.
C10_SectionBetweenMarkers ==
    /\ (exPc = "one" /\ Occurs(exText, exArgs[1])) =>
           IsTrimOf(exResult, SectionOf(exText, exArgs[1], exArgs[2]))
    /\ (exPc = "all" /\ Occurs(exText, RECOMMENDATIONS)) =>
           IsTrimOf(exSections[4], SectionOf(exText, RECOMMENDATIONS, NullMarker))

C10_Witness ==
    /\ exPc = "one"
    /\ Occurs(exText, exArgs[1])
    /\ exArgs[2] # NullMarker
    /\ OccursFrom(exText, exArgs[2], FirstAt(exText, exArgs[1], 0) + Len(exArgs[1]))
    /\ exResult # <<>>
    /\ exResult # SectionOf(exText, exArgs[1], exArgs[2])
    /\ IsTrimOf(exResult, SectionOf(exText, exArgs[1], exArgs[2]))

----------------------------------------------------------------------------
(* Claims about formatText *)

\* a line that one of the two bullet patterns turns into a list item
IsBulletLine(line) == Len(line) >= 2 /\ line[1] \in {"-", "*"} /\ line[2] = " "

\* number of maximal runs of bullet lines among ls
BulletRuns(ls) ==
    Cardinality({i \in 1..Len(ls) :
                    IsBulletLine(ls[i]) /\ (i = 1 \/ ~IsBulletLine(ls[i - 1]))})

IsTag(c) == c \in {"<li>", "</li>", "<ul>", "</ul>", "<br>"}

\* how many t-containers are open just before position p of out
OpenAt(out, p, open, close) ==
    Cardinality({i \in 1..(p - 1) : out[i] = open})
        - Cardinality({i \in 1..(p - 1) : out[i] = close})

\* C8 as stated: every maximal run of bullet lines is wrapped in exactly one
\* list container, so there are as many containers as runs, and text of a
\* non-bulleted line is never inside a list container.
C8_OneListPerRun ==
    (fmPc = "done" /\ fmText # <<>>) =>
        /\ Cardinality(Positions(fmResult, "<ul>")) = BulletRuns(SplitLines(fmText, <<>>))
        /\ Cardinality(Positions(fmResult, "</ul>")) = BulletRuns(SplitLines(fmText, <<>>))
        /\ \A p \in 1..Len(fmResult) :
               (~IsTag(fmResult[p]) /\ OpenAt(fmResult, p, "<ul>", "</ul>") > 0)
                   => OpenAt(fmResult, p, "<li>", "</li>") > 0

====
